---- MODULE Spec2Model ----
(***************************************************************************)
(* Model of firmware/components/parse_vl53l8ch_data.py: the VL53L8CH log   *)
(* parser.  A text line is a sequence of one-character strings; a grid is  *)
(* a sequence of GridSide rows of GridSide bytes; a float that the script  *)
(* computes as a quotient is kept exact as [num, den].                     *)
(***************************************************************************)
EXTENDS Integers, Sequences, FiniteSets, TLC

(* ---------------------------------------------------------------- bounds *)
\* Longest log file (in lines) that Init draws.
MaxLines == 3

(* ----------------------------------------------------- program constants *)
\* len(hex_string) != 128
HexLen == 128
\* reshape(8, 8)
GridSide == 8
\* if i > 100: break
LocatorLimit == 100

Cells == GridSide * GridSide

(* -------------------------------------------------------------- characters *)
\* The value of each hex digit, either case.
HexValue ==
  ("0" :> 0) @@ ("1" :> 1) @@ ("2" :> 2) @@ ("3" :> 3) @@ ("4" :> 4) @@
  ("5" :> 5) @@ ("6" :> 6) @@ ("7" :> 7) @@ ("8" :> 8) @@ ("9" :> 9) @@
  ("a" :> 10) @@ ("b" :> 11) @@ ("c" :> 12) @@ ("d" :> 13) @@ ("e" :> 14) @@
  ("f" :> 15) @@ ("A" :> 10) @@ ("B" :> 11) @@ ("C" :> 12) @@ ("D" :> 13) @@
  ("E" :> 14) @@ ("F" :> 15)

\* [0-9A-Fa-f]
IsHexDigit(c) == c \in DOMAIN HexValue

\* The value of a hex digit, as bytes.fromhex reads it.
HexVal(c) == HexValue[c]

\* \s of the re module, restricted to the characters a log line can hold.
RegexSpace == {" ", "\t", "\n", "\r", "\f"}

\* The ASCII whitespace bytes.fromhex skips between bytes.
AsciiSpace == {" ", "\t", "\n", "\r", "\f"}

\* 'TOF: HEX DATA:'
DistMarker == <<"T","O","F",":"," ","H","E","X"," ","D","A","T","A",":">>

\* 'TOF: TARGET STATUS:'
StatMarker ==
  <<"T","O","F",":"," ","T","A","R","G","E","T"," ","S","T","A","T","U","S",":">>

(* --------------------------------------------------------- parse_hex_data *)
ValueError == [ok |-> FALSE, error |-> "ValueError"]

IsAsciiSpace(c) == c \in AsciiSpace

\* Number of characters of s before position p that are not whitespace.
DigitsBefore(s, p) == Len(SelectSeq(SubSeq(s, 1, p - 1), LAMBDA c : ~IsAsciiSpace(c)))

\* bytes.fromhex(s): whitespace is skipped before each byte and a byte is two
\* adjacent hex digits.  It raises ValueError for a character that is neither,
\* for whitespace between the two digits of a byte, and for a last digit
\* without its pair.
fromhex(s) ==
  LET digits == SelectSeq(s, LAMBDA c : ~IsAsciiSpace(c))
  IN  IF \E k \in 1..Len(digits) : ~IsHexDigit(digits[k]) THEN ValueError
      ELSE IF \E p \in 1..Len(s) : IsAsciiSpace(s[p]) /\ DigitsBefore(s, p) % 2 = 1
      THEN ValueError
      ELSE IF Len(digits) % 2 = 1 THEN ValueError
      ELSE [ok |-> TRUE,
            bytes |-> [k \in 1..(Len(digits) \div 2) |->
                         16 * HexVal(digits[2 * k - 1]) + HexVal(digits[2 * k])]]

\* Mutant: Fortran (column-major) order.
ReshapeColumnMajor(bytes) ==
  [r \in 1..GridSide |-> [c \in 1..GridSide |-> bytes[(c - 1) * GridSide + r]]]

\* np.frombuffer(...).reshape(8, 8): row-major (C order).
Reshape(bytes) ==
  [r \in 1..GridSide |-> [c \in 1..GridSide |-> bytes[(r - 1) * GridSide + c]]]

\* parse_hex_data(hex_string): the grid, or the ValueError it raises (the
\* length check, fromhex, or reshape on a buffer that is not 64 bytes).
parse_hex_data(hex_string) ==
  IF Len(hex_string) # HexLen THEN ValueError
  ELSE LET b == fromhex(hex_string)
       IN  IF ~b.ok THEN ValueError
           ELSE IF Len(b.bytes) # Cells THEN ValueError
           ELSE [ok |-> TRUE, grid |-> Reshape(b.bytes)]

(* ------------------------------------------------------------- re.search *)
NoMatch == [found |-> FALSE]

\* The literal m occurs in line at position s.
MarkerAt(line, s, m) ==
  /\ s + Len(m) - 1 <= Len(line)
  /\ \A k \in 1..Len(m) : line[s + k - 1] = m[k]

\* Length of the whitespace run of line that starts at p.
RECURSIVE SpaceRun(_, _)
SpaceRun(line, p) ==
  IF p <= Len(line) /\ line[p] \in RegexSpace THEN 1 + SpaceRun(line, p + 1) ELSE 0

\* [0-9A-Fa-f]{128} matches at p (what follows is not looked at).
HexTokenAt(line, p) ==
  /\ p + HexLen - 1 <= Len(line)
  /\ \A k \in 0..(HexLen - 1) : IsHexDigit(line[p + k])

\* Where group 1 starts when r'TOF: HEX DATA:\s+([0-9A-Fa-f]{128})' matches
\* at s, else 0.  \s+ is greedy and no hex digit is whitespace, so the group
\* starts right after the whole whitespace run.
HexDataGroupAt(line, s) ==
  IF ~MarkerAt(line, s, DistMarker) THEN 0
  ELSE LET p == s + Len(DistMarker)
           w == SpaceRun(line, p)
       IN  IF w >= 1 /\ HexTokenAt(line, p + w) THEN p + w ELSE 0

\* Where group 1 starts when r'TOF: TARGET STATUS: ([0-9A-Fa-f]{128})'
\* matches at s, else 0: exactly one space character after the marker.
TargetStatusGroupAt(line, s) ==
  IF ~MarkerAt(line, s, StatMarker) THEN 0
  ELSE LET p == s + Len(StatMarker)
       IN  IF p <= Len(line) /\ line[p] = " " /\ HexTokenAt(line, p + 1)
           THEN p + 1 ELSE 0

\* re.search(hex_data_pattern, line): the leftmost match, with its group 1.
SearchHexData(line) ==
  LET starts == {s \in 1..Len(line) : HexDataGroupAt(line, s) # 0}
  IN  IF starts = {} THEN NoMatch
      ELSE LET s == CHOOSE x \in starts : \A y \in starts : x <= y
               g == HexDataGroupAt(line, s)
           IN  [found |-> TRUE, group1 |-> SubSeq(line, g, g + HexLen - 1)]

\* re.search(target_status_pattern, line).
SearchTargetStatus(line) ==
  LET starts == {s \in 1..Len(line) : TargetStatusGroupAt(line, s) # 0}
  IN  IF starts = {} THEN NoMatch
      ELSE LET s == CHOOSE x \in starts : \A y \in starts : x <= y
               g == TargetStatusGroupAt(line, s)
           IN  [found |-> TRUE, group1 |-> SubSeq(line, g, g + HexLen - 1)]

(* ------------------------------------------------------------ arithmetic *)
RECURSIVE Sum(_)
Sum(xs) == IF xs = <<>> THEN 0 ELSE xs[1] + Sum(Tail(xs))

\* Mutant: a valid target is status 5 only.
IsValidTargetOnly5(v) == v = 5

\* (target_array == 5) | (target_array == 9)
IsValidTarget(v) == v = 5 \/ v = 9

\* The boolean mask of a status grid, as 0/1.
ValidMask(grid) ==
  [r \in 1..GridSide |-> [c \in 1..GridSide |-> IF IsValidTarget(grid[r][c]) THEN 1 ELSE 0]]

\* np.sum(mask): the sum of all cells.
GridSum(grid) == Sum([r \in 1..GridSide |-> Sum(grid[r])])

\* Mutant: the unknown-validity grid filled with ones.
OnesGrid == [r \in 1..GridSide |-> [c \in 1..GridSide |-> 1]]

\* np.zeros((8, 8), dtype=np.uint8)
ZeroGrid == [r \in 1..GridSide |-> [c \in 1..GridSide |-> 0]]

(* ------------------------------------------- extract_hex_data_from_log *)
\* The three accumulators and the warnings printed so far.
Acc(d, t, v, w) ==
  [distance_arrays |-> d, target_status_arrays |-> t, valid_measurements |-> v,
   warnings |-> w]

\* except ValueError: print warning; continue
Skip(acc) ==
  Acc(acc.distance_arrays, acc.target_status_arrays, acc.valid_measurements,
      acc.warnings + 1)

\* The three appends of the paired branch.
AppendPaired(acc, distance_array, target_array) ==
  Acc(Append(acc.distance_arrays, distance_array),
      Append(acc.target_status_arrays, target_array),
      Append(acc.valid_measurements, GridSum(ValidMask(target_array))),
      acc.warnings)

\* Mutant: the legacy branch forgetting its valid_measurements append.
AppendLegacyNoCount(acc, distance_array) ==
  Acc(Append(acc.distance_arrays, distance_array),
      Append(acc.target_status_arrays, ZeroGrid),
      acc.valid_measurements,
      acc.warnings)

\* The three appends of the legacy (distance only) branch.
AppendLegacy(acc, distance_array) ==
  Acc(Append(acc.distance_arrays, distance_array),
      Append(acc.target_status_arrays, ZeroGrid),
      Append(acc.valid_measurements, 0),
      acc.warnings)

\* The body of `for i in range(len(lines) - 1)` for one i (0-based).
ScanBody(acc, ls, idx) ==
  LET distance_match == SearchHexData(ls[idx + 1])
  IN  IF ~distance_match.found THEN acc
      ELSE LET target_match == SearchTargetStatus(ls[idx + 2])
           IN  IF target_match.found
               THEN LET distance_array == parse_hex_data(distance_match.group1)
                        target_array == parse_hex_data(target_match.group1)
                    IN  IF distance_array.ok /\ target_array.ok
                        THEN AppendPaired(acc, distance_array.grid, target_array.grid)
                        ELSE Skip(acc)
               ELSE LET distance_array == parse_hex_data(distance_match.group1)
                    IN  IF distance_array.ok
                        THEN AppendLegacy(acc, distance_array.grid)
                        ELSE Skip(acc)

\* Mutant: a line consumed as a status line is not examined again.
NextIndexSkipStatus(ls, idx) ==
  IF SearchHexData(ls[idx + 1]).found /\ SearchTargetStatus(ls[idx + 2]).found
  THEN idx + 2 ELSE idx + 1

\* The next value of the loop variable of range(len(lines) - 1).
NextIndex(ls, idx) == idx + 1

(* ----------------------------------------------------------- statistics *)
\* Values of one cell across the stacked frames (axis 0).
CellSeries(stack, r, c) == [j \in 1..Len(stack) |-> stack[j][r][c]]

\* np.mean(xs): the quotient sum / count, kept exact.
Mean(xs) == [num |-> Sum(xs), den |-> Len(xs)]

\* np.std(xs) ** 2: the population variance (divisor = count), kept exact.
PopVariance(xs) ==
  [num |-> Len(xs) * Sum([j \in 1..Len(xs) |-> xs[j] * xs[j]]) - Sum(xs) * Sum(xs),
   den |-> Len(xs) * Len(xs)]

\* Mutant: the validity fraction left unscaled.
ScaleBy1(q) == [num |-> q.num, den |-> q.den]

\* q * 100
ScaleBy100(q) == [num |-> 100 * q.num, den |-> q.den]

\* np.mean(distance_data, axis=0)
MeanGrid(stack) ==
  [r \in 1..GridSide |-> [c \in 1..GridSide |-> Mean(CellSeries(stack, r, c))]]

\* np.std(distance_data, axis=0), squared
VarianceGrid(stack) ==
  [r \in 1..GridSide |-> [c \in 1..GridSide |-> PopVariance(CellSeries(stack, r, c))]]

\* np.mean((target_status_data == 5) | (target_status_data == 9), axis=0) * 100
ValidityGrid(stack) ==
  LET masks == [j \in 1..Len(stack) |-> ValidMask(stack[j])]
  IN  [r \in 1..GridSide |-> [c \in 1..GridSide |->
         ScaleBy100(Mean(CellSeries(masks, r, c)))]]

(* -------------------------------------------- find_latest_log_with_data *)
\* 'TOF: HEX DATA:' in line
HasDistMarker(line) == \E s \in 1..Len(line) : MarkerAt(line, s, DistMarker)

\* The scan of one log file: a marker in a line with enumerate index i,
\* reached before the `if i > 100: break` of an earlier line.
FileHasTOF(file) ==
  \E n \in 1..Len(file) : n - 1 <= LocatorLimit + 1 /\ HasDistMarker(file[n])

\* The files are sorted newest first; the first with TOF data is returned,
\* None (0) when there is none.
FindLatestLogWithData(logs) ==
  LET hits == {n \in 1..Len(logs) : FileHasTOF(logs[n])}
  IN  IF hits = {} THEN 0 ELSE CHOOSE n \in hits : \A m \in hits : n <= m

(* ------------------------------------------------------------------ state *)
VARIABLES
  argGiven,              \* args.log_file is set
  files,                 \* the files main can see: the file at the given path
                         \* (none when the path does not exist), or the
                         \* device-monitor-*.log files, newest first
  log_file,              \* index in files of the log analysed, 0 for None
  lines,                 \* f.readlines()
  i,                     \* loop variable of the scan (0-based)
  distance_arrays, target_status_arrays, valid_measurements,
  warnings,              \* number of "Skipping invalid hex data" warnings
  origin,                \* history: the line index each measurement came from
  mean_distance, var_distance, validity_percentage,
  valid_mean,            \* np.mean(valid_counts)
  dir_created,           \* output_dir.mkdir happened
  attempted, saved,      \* artifacts whose write was started / completed
  stdout,                \* messages printed, in order
  exit_status,           \* process completion status, -1 while running
  pc,
  hex_string, decoded,   \* parse_hex_data applied on its own
  probe_line, probe      \* the two patterns applied on their own

scanVars == <<lines, i, distance_arrays, target_status_arrays, valid_measurements,
              warnings, origin>>
statVars == <<mean_distance, var_distance, validity_percentage, valid_mean>>
sinkVars == <<dir_created, attempted, saved>>
envVars == <<argGiven, files>>
pureVars == <<hex_string, decoded, probe_line, probe>>
vars == <<argGiven, files, log_file, lines, i, distance_arrays, target_status_arrays,
          valid_measurements, warnings, origin, mean_distance, var_distance,
          validity_percentage, valid_mean, dir_created, attempted, saved, stdout,
          exit_status, pc, hex_string, decoded, probe_line, probe>>

(* ----------------------------------------------------------------- inputs *)
\* pattern repeated up to n characters
Rep(pattern, n) == [k \in 1..n |-> pattern[((k - 1) % Len(pattern)) + 1]]

Noise == <<"n","o","i","s","e","\n">>
\* "TOF: HEX DATA: " + "00"*64
DistA == DistMarker \o <<" ">> \o Rep(<<"0","0">>, HexLen) \o <<"\n">>
\* a log prefix, a tab and a space after the marker, mixed-case digits, no newline
DistB == <<"I"," ">> \o DistMarker \o <<"\t"," ">> \o Rep(<<"1","a","F","0","0","9">>, HexLen)
\* "TOF: TARGET STATUS: " + "05"*32 + "09"*32
StatA == StatMarker \o <<" ">> \o Rep(<<"0","5">>, HexLen \div 2)
           \o Rep(<<"0","9">>, HexLen \div 2) \o <<"\n">>
\* a status token of 120 digits
StatShort == StatMarker \o <<" ">> \o Rep(<<"0","5">>, HexLen - 8) \o <<"\n">>
\* a status token and a distance token on one line
Both == StatMarker \o <<" ">> \o Rep(<<"0","5","0","0","0","9","f","F">>, HexLen)
          \o <<" ">> \o DistMarker \o <<" ">> \o Rep(<<"0","7","2","a">>, HexLen) \o <<"\n">>

Lexicon == {Noise, DistA, DistB, StatA, StatShort, Both}

LogFiles == UNION {[1..n -> Lexicon] : n \in 0..MaxLines}

\* An older log without sensor data, in the logs directory.
NoiseLog == <<Noise>>

\* s with the character at pos replaced by ch (s itself when pos is outside)
Corrupt(s, pos, ch) == [k \in 1..Len(s) |-> IF k = pos THEN ch ELSE s[k]]

DecodeTokens ==
  {Corrupt(Rep(pat, n), pos, ch) :
     pat \in {<<"0","0">>, <<"1","a","F","0","0","9">>, <<"0","5","f","F">>},
     n \in {0, 2, HexLen - 2, HexLen - 1, HexLen, HexLen + 1, HexLen + 2},
     pos \in {0, 1, 2, HexLen \div 2, HexLen - 1, HexLen},
     ch \in {"g", " ", "x", "-"}}

ProbeLines ==
  {prefix \o marker \o ws \o Rep(<<"0","5","a","F">>, n) \o suffix :
     prefix \in {<<>>, <<"I"," ">>},
     marker \in {DistMarker, StatMarker},
     ws \in {<<>>, <<" ">>, <<"\t">>, <<" "," ">>},
     n \in {0, HexLen - 8, HexLen - 1, HexLen, HexLen + 1, HexLen + 2},
     suffix \in {<<>>, <<"\n">>, <<" ","z">>, <<"g">>}}

(* ------------------------------------------------------------------- Init *)
\* Everything main and analyze_sensor_data assign later.
Fresh ==
  /\ log_file = 0
  /\ lines = <<>>
  /\ i = 0
  /\ distance_arrays = <<>>
  /\ target_status_arrays = <<>>
  /\ valid_measurements = <<>>
  /\ warnings = 0
  /\ origin = <<>>
  /\ mean_distance = <<>>
  /\ var_distance = <<>>
  /\ validity_percentage = <<>>
  /\ valid_mean = [num |-> 0, den |-> 0]
  /\ dir_created = FALSE
  /\ attempted = <<>>
  /\ saved = {}
  /\ stdout = <<>>
  /\ exit_status = -1

PureIdle ==
  /\ hex_string = <<>>
  /\ decoded = [ok |-> FALSE, error |-> "none"]
  /\ probe_line = <<>>
  /\ probe = [distance |-> FALSE, status |-> FALSE]

\* The process starts: a path was given (existing or not), or the logs
\* directory holds some files.
Init ==
  /\ Fresh
  /\ PureIdle
  /\ pc = "main"
  /\ \/ /\ argGiven = TRUE
        /\ \/ files = <<>>
           \/ \E content \in LogFiles : files = <<content>>
     \/ /\ argGiven = FALSE
        /\ \/ files = <<>>
           \/ \E content \in LogFiles : files \in {<<content>>, <<NoiseLog, content>>}

(* ------------------------------------------------------------------- main *)
\* if not Path(log_file).exists(): print error; return
MainPathMissing ==
  /\ pc = "main" /\ argGiven /\ files = <<>>
  /\ stdout' = Append(stdout, "Error: Log file not found")
  /\ pc' = "return"
  /\ UNCHANGED <<envVars, log_file, scanVars, statVars, sinkVars, exit_status, pureVars>>

\* log_file = args.log_file; analyze_sensor_data(log_file)
MainPathGiven ==
  /\ pc = "main" /\ argGiven /\ files # <<>>
  /\ log_file' = 1
  /\ pc' = "analyze"
  /\ UNCHANGED <<envVars, scanVars, statVars, sinkVars, stdout, exit_status, pureVars>>

\* find_latest_log_with_data() returns None: return
MainLocateNone ==
  /\ pc = "main" /\ ~argGiven
  /\ FindLatestLogWithData(files) = 0
  /\ stdout' = Append(stdout, IF files = <<>> THEN "No log files found!"
                              ELSE "No log files with TOF data found!")
  /\ pc' = "return"
  /\ UNCHANGED <<envVars, log_file, scanVars, statVars, sinkVars, exit_status, pureVars>>

\* find_latest_log_with_data() returns a file: analyze_sensor_data(log_file)
MainLocateFound ==
  /\ pc = "main" /\ ~argGiven
  /\ FindLatestLogWithData(files) # 0
  /\ log_file' = FindLatestLogWithData(files)
  /\ stdout' = Append(stdout, "Found TOF data in")
  /\ pc' = "analyze"
  /\ UNCHANGED <<envVars, scanVars, statVars, sinkVars, exit_status, pureVars>>

(* --------------------------------------------------- analyze_sensor_data *)
\* print("Processing log file"); extract_hex_data_from_log opens the file,
\* empties the three lists and reads all lines.
ReadLog ==
  /\ pc = "analyze"
  /\ stdout' = Append(stdout, "Processing log file")
  /\ lines' = files[log_file]
  /\ i' = 0
  /\ distance_arrays' = <<>>
  /\ target_status_arrays' = <<>>
  /\ valid_measurements' = <<>>
  /\ pc' = "scan"
  /\ UNCHANGED <<envVars, log_file, warnings, origin, statVars, sinkVars, exit_status,
                 pureVars>>

\* One iteration of for i in range(len(lines) - 1).
ScanStep ==
  /\ pc = "scan"
  /\ i < Len(lines) - 1
  /\ LET acc == ScanBody(Acc(distance_arrays, target_status_arrays,
                             valid_measurements, warnings), lines, i)
     IN  /\ distance_arrays' = acc.distance_arrays
         /\ target_status_arrays' = acc.target_status_arrays
         /\ valid_measurements' = acc.valid_measurements
         /\ warnings' = acc.warnings
         /\ origin' = IF Len(acc.distance_arrays) > Len(distance_arrays)
                      THEN Append(origin, i) ELSE origin
  /\ i' = NextIndex(lines, i)
  /\ UNCHANGED <<envVars, log_file, lines, statVars, sinkVars, stdout, exit_status, pc,
                 pureVars>>

\* Mutant: the no-data check never taken.
IsNoDataNever(arrays) == FALSE

\* not distance_arrays
IsNoData(arrays) == arrays = <<>>

\* The loop is over and the lists are empty: print "No TOF hex data found in
\* log file!" and return.
AnalyzeNoData ==
  /\ pc = "scan"
  /\ ~(i < Len(lines) - 1)
  /\ IsNoData(distance_arrays)
  /\ stdout' = Append(stdout, "No TOF hex data found in log file!")
  /\ pc' = "return"
  /\ UNCHANGED <<envVars, log_file, scanVars, statVars, sinkVars, exit_status, pureVars>>

\* The loop is over with measurements: np.stack, the statistics and their
\* prints.  np.stack of an empty list raises ValueError.
Aggregate ==
  /\ pc = "scan"
  /\ ~(i < Len(lines) - 1)
  /\ ~IsNoData(distance_arrays)
  /\ IF distance_arrays = <<>> \/ target_status_arrays = <<>>
     THEN /\ pc' = "raise"
          /\ stdout' = Append(stdout, "Found sensor measurements")
          /\ UNCHANGED statVars
     ELSE /\ valid_mean' = Mean(valid_measurements)
          /\ mean_distance' = MeanGrid(distance_arrays)
          /\ var_distance' = VarianceGrid(distance_arrays)
          /\ validity_percentage' = ValidityGrid(target_status_arrays)
          /\ stdout' = stdout \o <<"Found sensor measurements", "Statistics">>
          /\ pc' = "mkdir"
  /\ UNCHANGED <<envVars, log_file, scanVars, sinkVars, exit_status, pureVars>>

\* output_dir.mkdir(exist_ok=True)
Mkdir ==
  /\ pc = "mkdir"
  /\ dir_created' = TRUE
  /\ pc' = "artifacts"
  /\ UNCHANGED <<envVars, log_file, scanVars, statVars, attempted, saved, stdout,
                 exit_status, pureVars>>

\* mkdir raises (OSError): nothing catches it.
MkdirFails ==
  /\ pc = "mkdir"
  /\ pc' = "raise"
  /\ UNCHANGED <<envVars, log_file, scanVars, statVars, sinkVars, stdout, exit_status,
                 pureVars>>

\* The three create_heatmap calls and the five np.save calls, in order.
Artifacts ==
  <<"distance_mean.png", "distance_std.png", "validity.png",
    "distance_data.npy", "target_status_data.npy", "distance_mean.npy",
    "distance_std.npy", "validity.npy">>

\* plt.savefig / np.save of the next artifact succeeds.
SinkWrites ==
  /\ pc = "artifacts"
  /\ Len(attempted) < Len(Artifacts)
  /\ LET a == Artifacts[Len(attempted) + 1]
     IN  /\ attempted' = Append(attempted, a)
         /\ saved' = saved \cup {a}
         /\ stdout' = IF Len(attempted) < 3 THEN Append(stdout, "Saved heatmap")
                      ELSE stdout
  /\ UNCHANGED <<envVars, log_file, scanVars, statVars, dir_created, exit_status, pc,
                 pureVars>>

\* plt.savefig / np.save of the next artifact raises: the exception leaves
\* create_heatmap, analyze_sensor_data and main.
SinkFails ==
  /\ pc = "artifacts"
  /\ Len(attempted) < Len(Artifacts)
  /\ attempted' = Append(attempted, Artifacts[Len(attempted) + 1])
  /\ pc' = "raise"
  /\ UNCHANGED <<envVars, log_file, scanVars, statVars, dir_created, saved, stdout,
                 exit_status, pureVars>>

\* print("Analysis complete!") and the list of files; return
AnalyzeComplete ==
  /\ pc = "artifacts"
  /\ Len(attempted) = Len(Artifacts)
  /\ stdout' = Append(stdout, "Analysis complete!")
  /\ pc' = "return"
  /\ UNCHANGED <<envVars, log_file, scanVars, statVars, sinkVars, exit_status, pureVars>>

(* ---------------------------------------------------------------- process *)
\* main() returned: the interpreter exits with status 0.
ExitReturned ==
  /\ pc = "return"
  /\ exit_status' = 0
  /\ pc' = "exited"
  /\ UNCHANGED <<envVars, log_file, scanVars, statVars, sinkVars, stdout, pureVars>>

\* An exception reached the top level: traceback, status 1.
ExitRaised ==
  /\ pc = "raise"
  /\ exit_status' = 1
  /\ pc' = "exited"
  /\ UNCHANGED <<envVars, log_file, scanVars, statVars, sinkVars, stdout, pureVars>>

Next ==
  \/ MainPathMissing \/ MainPathGiven \/ MainLocateNone \/ MainLocateFound
  \/ ReadLog \/ ScanStep \/ AnalyzeNoData \/ Aggregate
  \/ Mkdir \/ MkdirFails \/ SinkWrites \/ SinkFails \/ AnalyzeComplete
  \/ ExitReturned \/ ExitRaised

Spec == Init /\ [][Next]_vars

(* ------------------------------------------- parse_hex_data on its own *)
InitDecode ==
  /\ Fresh
  /\ argGiven = FALSE /\ files = <<>>
  /\ probe_line = <<>>
  /\ probe = [distance |-> FALSE, status |-> FALSE]
  /\ hex_string \in DecodeTokens
  /\ decoded = [ok |-> FALSE, error |-> "none"]
  /\ pc = "decode"

Decode ==
  /\ pc = "decode"
  /\ decoded' = parse_hex_data(hex_string)
  /\ pc' = "decoded"
  /\ UNCHANGED <<envVars, log_file, scanVars, statVars, sinkVars, stdout, exit_status,
                 hex_string, probe_line, probe>>

NextDecode == Decode

SpecDecode == InitDecode /\ [][NextDecode]_vars

(* ------------------------------------------ the two patterns on their own *)
InitMatch ==
  /\ Fresh
  /\ argGiven = FALSE /\ files = <<>>
  /\ hex_string = <<>>
  /\ decoded = [ok |-> FALSE, error |-> "none"]
  /\ probe_line \in ProbeLines
  /\ probe = [distance |-> FALSE, status |-> FALSE]
  /\ pc = "match"

Match ==
  /\ pc = "match"
  /\ probe' = [distance |-> SearchHexData(probe_line).found,
               status |-> SearchTargetStatus(probe_line).found]
  /\ pc' = "matched"
  /\ UNCHANGED <<envVars, log_file, scanVars, statVars, sinkVars, stdout, exit_status,
                 hex_string, decoded, probe_line>>

NextMatch == Match

SpecMatch == InitMatch /\ [][NextMatch]_vars

(* ================================================================ claims *)
\* Line with 0-based index k holds a distance token / a status token, as the
\* two patterns of the scan recognize them.
HoldsDistance(k) == k + 1 <= Len(lines) /\ SearchHexData(lines[k + 1]).found
HoldsStatus(k) == k + 1 <= Len(lines) /\ SearchTargetStatus(lines[k + 1]).found

\* Byte k (0-based) of a token of hex digits, read two digits at a time.
ByteOf(token, k) == 16 * HexVal(token[2 * k + 1]) + HexVal(token[2 * k + 2])

\* The grid a token of 128 hex digits stands for: byte k at row k div 8,
\* column k mod 8.
TokenGrid(token) ==
  [r \in 1..8 |-> [c \in 1..8 |-> ByteOf(token, (r - 1) * 8 + (c - 1))]]

\* The cells of a status grid that equal 5 or 9.
ValidCells(grid) == {rc \in (1..8) \X (1..8) : grid[rc[1]][rc[2]] \in {5, 9}}

AllZero(grid) == \A r \in 1..8 : \A c \in 1..8 : grid[r][c] = 0

\* The positions of the run that came from line index k.
From(k) == {j \in 1..Len(origin) : origin[j] = k}

\* The for loop of the scan has ended.
ScanOver == log_file # 0 /\ pc # "analyze" /\ ~(i < Len(lines) - 1)

\* The terminal outcomes, read off the messages printed.
Last(msgs) == IF msgs = <<>> THEN "" ELSE msgs[Len(msgs)]
EmptyRun == Last(stdout) = "No TOF hex data found in log file!"
SourceUnavailable ==
  Last(stdout) \in {"Error: Log file not found", "No log files found!",
                    "No log files with TOF data found!"}

\* C1: while the scan runs and when it returns, for every scanned index k whose line holds a distance token and whose
\* next line holds a status token, the run holds exactly one measurement for
\* k: its distance grid decodes the distance token, its status grid decodes
\* the status token, and its valid-count is the number of status cells equal
\* to 5 or 9.
C1_PairedMeasurement ==
  pc = "scan" =>
  \A k \in 0..(i - 1) :
    (HoldsDistance(k) /\ HoldsStatus(k + 1)) =>
      /\ Cardinality(From(k)) = 1
      /\ \A j \in From(k) :
           /\ distance_arrays[j] = TokenGrid(SearchHexData(lines[k + 1]).group1)
           /\ target_status_arrays[j] = TokenGrid(SearchTargetStatus(lines[k + 2]).group1)
           /\ valid_measurements[j] = Cardinality(ValidCells(target_status_arrays[j]))

\* C1 witness: the scenario noise / distance "00"*64 / status "05"*32+"09"*32
\* scanned to one measurement with valid-count 64.
C1_Witness ==
  /\ lines = <<Noise, DistA, StatA>>
  /\ ScanOver
  /\ valid_measurements = <<64>>
  /\ AllZero(distance_arrays[1])
  /\ target_status_arrays[1][4][8] = 5 /\ target_status_arrays[1][5][1] = 9

\* C2 as claimed: once the scan is over, every line (the final one included)
\* that holds a distance token and is not followed by a line holding a status
\* token has exactly one measurement, with an all-zero status grid and
\* valid-count 0.
C2_AsClaimed ==
  ScanOver =>
    \A k \in 0..(Len(lines) - 1) :
      (HoldsDistance(k) /\ ~HoldsStatus(k + 1)) =>
        /\ Cardinality(From(k)) = 1
        /\ \A j \in From(k) :
             AllZero(target_status_arrays[j]) /\ valid_measurements[j] = 0

\* C2 amended: while the scan runs and when it returns, every scanned line (index 0..length-2, so never the final
\* line) that holds a distance token and whose next line holds no status
\* token has exactly one measurement: the decoded distance grid, an all-zero
\* status grid and valid-count 0; no candidate is discarded with a warning.
C2_LegacyMeasurement ==
  pc = "scan" =>
  /\ warnings = 0
  /\ ScanOver => i = IF Len(lines) = 0 THEN 0 ELSE Len(lines) - 1
  /\ \A k \in 0..(i - 1) :
       (HoldsDistance(k) /\ ~HoldsStatus(k + 1)) =>
         /\ Cardinality(From(k)) = 1
         /\ \A j \in From(k) :
              /\ distance_arrays[j] = TokenGrid(SearchHexData(lines[k + 1]).group1)
              /\ AllZero(target_status_arrays[j])
              /\ valid_measurements[j] = 0

\* C2 witness: a distance line followed by a 120-digit status line, scanned
\* to one legacy measurement.
C2_Witness ==
  /\ lines = <<DistA, StatShort>>
  /\ ScanOver
  /\ Len(distance_arrays) = 1
  /\ AllZero(target_status_arrays[1])
  /\ valid_measurements = <<0>>

\* C3: the scan is one forward pass: at every iteration and at its return
\* the measurements so far are, in
\* increasing order of index, exactly one for each index below the loop
\* variable whose line holds a distance token (whether or not that line was
\* the status line of the index before), the loop variable never passes
\* length-1, and so the final line starts no measurement.
C3_ForwardPass ==
  pc = "scan" =>
  /\ i <= (IF Len(lines) = 0 THEN 0 ELSE Len(lines) - 1)
  /\ ScanOver => i = IF Len(lines) = 0 THEN 0 ELSE Len(lines) - 1
  /\ \A j \in 1..(Len(origin) - 1) : origin[j] < origin[j + 1]
  /\ {origin[j] : j \in 1..Len(origin)} = {k \in 0..(i - 1) : HoldsDistance(k)}
  /\ Len(distance_arrays) = Len(origin)
  /\ \A j \in 1..Len(origin) :
       /\ origin[j] <= Len(lines) - 2
       /\ distance_arrays[j] = TokenGrid(SearchHexData(lines[origin[j] + 1]).group1)

\* C3 witness: the middle line served as the status line of index 0 and
\* started its own measurement at index 1; the final line holds a distance
\* token and started none.
C3_Witness ==
  /\ lines = <<DistA, Both, DistB>>
  /\ ScanOver
  /\ origin = <<0, 1>>
  /\ target_status_arrays[1] = TokenGrid(SearchTargetStatus(Both).group1)
  /\ distance_arrays[2] = TokenGrid(SearchHexData(Both).group1)

\* A frame as the interface text defines it: the marker, then a run of one
\* or more whitespace characters, then a run of hex digits that is exactly
\* 128 long.
FrameAsSpecified(line, marker) ==
  \E s \in 1..Len(line) :
    /\ MarkerAt(line, s, marker)
    /\ SpaceRun(line, s + Len(marker)) >= 1
    /\ LET g == s + Len(marker) + SpaceRun(line, s + Len(marker))
       IN  /\ g + 127 <= Len(line)
           /\ \A p \in g..(g + 127) : IsHexDigit(line[p])
           /\ ~(g + 128 <= Len(line) /\ IsHexDigit(line[g + 128]))

\* C4 as claimed: a line is recognized as a distance frame (a status frame)
\* if and only if it holds the marker, any run of whitespace, and a hex token
\* of exactly 128 characters.
C4_AsClaimed ==
  pc = "matched" =>
    /\ probe.distance = FrameAsSpecified(probe_line, DistMarker)
    /\ probe.status = FrameAsSpecified(probe_line, StatMarker)

\* C5: parse_hex_data raises ValueError, with no grid, for every token whose
\* length is not 128 and for every 128-character token with a character that
\* is no hex digit; for a token of 128 hex digits it returns the grid with
\* byte k at row k div 8, column k mod 8.
C5_Decode ==
  pc = "decoded" =>
    IF Len(hex_string) = 128 /\ \A p \in 1..128 : IsHexDigit(hex_string[p])
    THEN /\ decoded.ok
         /\ \A k \in 0..63 :
              decoded.grid[(k \div 8) + 1][(k % 8) + 1] = ByteOf(hex_string, k)
    ELSE decoded = [ok |-> FALSE, error |-> "ValueError"]

\* C5 witness: a token of 128 mixed-case hex digits decoded to a grid that is
\* not symmetric, so the row-major order shows.
C5_Witness ==
  /\ pc = "decoded"
  /\ decoded.ok
  /\ decoded.grid[1][1] = 26 /\ decoded.grid[1][2] = 240 /\ decoded.grid[2][1] = 9

\* C6: when the scan ends with zero measurements, the run ends in EmptyRun
\* without an exception: no artifact is attempted or saved and the output
\* directory is not created.
C6_EmptyRun ==
  (ScanOver /\ distance_arrays = <<>>) =>
    /\ ~dir_created
    /\ attempted = <<>>
    /\ saved = {}
    /\ pc \in {"scan", "return", "exited"}
    /\ pc \in {"return", "exited"} => EmptyRun
    /\ pc = "exited" => exit_status = 0

\* C6 witness: a log whose only distance token is on its last line ended in
\* EmptyRun.
C6_Witness ==
  /\ lines = <<Noise, DistA>>
  /\ pc = "exited"
  /\ EmptyRun
  /\ distance_arrays = <<>>

\* C7 as claimed: every execution that reaches report assembly attempts all
\* eight artifacts, whichever writes failed.
C7_AsClaimed ==
  (pc = "exited" /\ dir_created) => Len(attempted) = Len(Artifacts)

\* C8 as claimed: an execution that ends in EmptyRun or SourceUnavailable
\* ends with a non-zero completion status.
C8_AsClaimed ==
  (pc = "exited" /\ (EmptyRun \/ SourceUnavailable)) => exit_status # 0

\* C9: once the statistics are computed for a run of N measurements, every
\* cell of validity_percentage is 100 times the number of measurements whose
\* status there is 5 or 9, divided by N; when every status grid is all-zero
\* the percentage is zero everywhere and the mean valid-count is 0.
C9_Validity ==
  validity_percentage # <<>> =>
    LET N == Len(target_status_arrays)
    IN  /\ N > 0
        /\ \A r \in 1..8 : \A c \in 1..8 :
             LET q == validity_percentage[r][c]
                 n == Cardinality({j \in 1..N : target_status_arrays[j][r][c] \in {5, 9}})
             IN  q.den > 0 /\ q.num * N = 100 * n * q.den
        /\ valid_mean.den > 0
        /\ (\A j \in 1..N : AllZero(target_status_arrays[j])) =>
             /\ \A r \in 1..8 : \A c \in 1..8 : validity_percentage[r][c].num = 0
             /\ valid_mean.num = 0

\* C9 witness: a run of two measurements in which a cell is valid in one and
\* not in the other (50 percent), next to a cell valid in neither.
C9_Witness ==
  /\ Len(target_status_arrays) = 2
  /\ validity_percentage # <<>>
  /\ validity_percentage[1][1] = [num |-> 100, den |-> 2]
  /\ validity_percentage[1][2] = [num |-> 0, den |-> 2]

\* C10: in every state reached during the scan the three sequences have the same length and entry j
\* of each comes from the same candidate line; every candidate scanned so far
\* was either appended to all three or skipped with a warning.
C10_Parallel ==
  pc = "scan" =>
  /\ Len(distance_arrays) = Len(target_status_arrays)
  /\ Len(target_status_arrays) = Len(valid_measurements)
  /\ Len(valid_measurements) = Len(origin)
  /\ Cardinality({k \in 0..(i - 1) : HoldsDistance(k)}) = Len(origin) + warnings
  /\ \A j \in 1..Len(origin) :
       LET k == origin[j]
       IN  /\ HoldsDistance(k)
           /\ distance_arrays[j] = TokenGrid(SearchHexData(lines[k + 1]).group1)
           /\ IF HoldsStatus(k + 1)
              THEN target_status_arrays[j] =
                     TokenGrid(SearchTargetStatus(lines[k + 2]).group1)
              ELSE AllZero(target_status_arrays[j])
           /\ valid_measurements[j] = Cardinality(ValidCells(target_status_arrays[j]))

\* C10 witness: a paired and a legacy measurement side by side in the three
\* sequences.
C10_Witness ==
  /\ pc = "scan"
  /\ origin = <<0, 1>>
  /\ Len(distance_arrays) = 2
  /\ valid_measurements[1] > 0
  /\ valid_measurements[2] = 0
  /\ ~AllZero(target_status_arrays[1])
  /\ AllZero(target_status_arrays[2])

====
